---- MODULE Spec2Model ----
(***************************************************************************)
(* Model of examples/monitor_printers.py: the start-up loop that connects  *)
(* the printers, the continuous monitoring loop (retry block, one poll per *)
(* active printer, sleep) and log_job_event, which reconstructs the job    *)
(* history (table printer_job_history) from the polled status snapshots.   *)
(***************************************************************************)
EXTENDS Integers, Sequences, FiniteSets, TLC

\* ------------------------------------------------------------------ bounds
MaxCycles == 1          \* completed monitoring cycles (caps the clock)
MaxJobs == 2            \* rows of printer_job_history
MaxScenarioCycles == 3  \* completed cycles of the end-to-end scenario
MaxFleetCycles == 1     \* completed cycles of the two-printer fleet
MaxRemainingMin == 3    \* remaining minutes the estimates are computed for
MaxSlotCode == 255      \* largest active-slot code that is decoded
MaxLedgerCalls == 2     \* consecutive calls that touch a job's filaments
MaxTrackCycles == 2     \* completed cycles of the one-printer job tracking
MaxAmsCount == 2        \* largest printers.ams_count of a printer
MaxReportedTrays == 3   \* trays the AMS hub reports in one poll
MaxStatusLogCalls == 3  \* calls of log_status_periodically
EpochStart == 10000     \* time.time() when the model starts

\* The consecutive-failure threshold of the quarantine rule (spec 4.1, 4.2).
QuarantineThreshold == 2

\* ------------------------------------------------------- program constants
RETRY_INTERVAL_SECONDS == 300
LOG_INTERVAL_SECONDS == 300
POLL_SLEEP_SECONDS == 10

\* The printer ids that can occur in table printers.
PrinterIds == {1, 2}

\* Python None for string-valued fields; SQL NULL / None for numbers is <<>>,
\* a known number n is <<n>>.
None == "None"
NULL == <<>>

\* The placeholder the poll loop substitutes for an empty file name.
NA == "[dim]N/A[/]"

\* What client.get_state() and client.gcode_file() can report.
States == {"IDLE", "RUNNING", "FINISH"}
RawFiles == {"", "a.job", "b.job"}

\* (percentage, remaining minutes) pairs client.get_percentage() and
\* client.get_time() can report; <<>> is "unknown".
Progress == {<<<<50>>, <<30>>>>}

\* Time a monitoring cycle can take: the sleep alone, or a long cycle whose
\* network calls ran into their timeouts.
CycleDurations == {POLL_SLEEP_SECONDS}

VARIABLES
    printers_data,           \* the rows of table printers (their printer_id)
    phase,                   \* "init" (start-up loop), "loop", "stopped"
    init_idx,                \* position of the start-up loop in printers_data
    active_printers,         \* list of printer_info dicts
    printer_client,          \* printer whose client the name printer_client
                             \* is bound to (0: unbound)
    unreachable_printers,    \* list of printer ids waiting for a retry
    last_retry_attempt_time,
    idx,                     \* 0: before the retry block; i: before polling
                             \* active_printers[i]; Len+1: before the sleep
    connected,               \* client.mqtt_client.is_connected() per printer
    clock,                   \* wall-clock time in seconds
    cycles,                  \* monitoring cycles completed
    printer_job_history,     \* table printer_job_history, row id = position
    health_failures,         \* per printer: consecutive passes without a
                             \* snapshot (observer of the poll loop)
    scen,                    \* snapshots of the end-to-end scenario that
                             \* printer 1 has reported (SpecScenario only)
    last,                    \* the most recent poll: the printer, whether it
                             \* was its first snapshot in this process, what
                             \* the pass printed about the job, and whether
                             \* it printed "Error updating printers table"
    snapshot,                \* the locals status, percentage, gcode_file,
                             \* remaining_time_min and current_filament_info
                             \* of the loop body, as last read
    printers_table,          \* table printers: the telemetry columns per row
    printer_job_filaments,   \* table printer_job_filaments (list of rows)
    probe,                   \* arguments and results of a function that is
                             \* exercised on its own
    attempt                  \* the attempt to connect a printer that the
                             \* last step made, if it made one: where, what
                             \* ping_host returned, whether mqtt_start() was
                             \* called, how the readiness wait ended (observer)

vars == <<printers_data, phase, init_idx, active_printers, printer_client, unreachable_printers,
          last_retry_attempt_time, idx, connected, clock, cycles,
          printer_job_history, health_failures, scen, last,
          snapshot, printers_table, printer_job_filaments, probe, attempt>>

\* The variables only a poll pass, or a function exercised on its own, changes.
poll_vars == <<snapshot, printers_table, printer_job_filaments, probe>>

NoPoll == [id |-> 0, fresh |-> FALSE, event |-> "NOPOLL", tel_error |-> FALSE]

\* The locals of the loop body before the first status read.
NoSnapshot ==
    [status |-> None, percentage |-> NULL, gcode_file |-> None,
     remaining_time_min |-> NULL, current_filament_info |-> None]

\* A row of table printers no poll has written yet.
NoTelemetry ==
    [last_poll_status |-> None, last_polled_at |-> NULL, remaining_time |-> NULL,
     current_print_job |-> None, Print_Progress |-> NULL]

NoProbe == <<>>

\* The step made no attempt; ping is "ok", "fail" or "none" (ping_host is not called),
\* ready is "ready", "timeout" or "none" (the wait was not reached or there
\* is none).
NoAttempt ==
    [id |-> 0, place |-> "none", ping |-> "none", handshake |-> FALSE, ready |-> "none"]

\* ------------------------------------------------------------ start-up
NewPrinterInfo(printer_id) ==
    [id |-> printer_id, previous_status |-> None, previous_filename |-> None,
     last_log_timestamp |-> 0, current_job_id |-> NULL]

MachineInit(rows, history, filaments) ==
    /\ printers_data = rows
    /\ phase = "init"
    /\ init_idx = 1
    /\ active_printers = <<>>
    /\ printer_client = 0
    /\ unreachable_printers = <<>>
    /\ last_retry_attempt_time = 0
    /\ idx = 0
    /\ connected = [p \in PrinterIds |-> FALSE]
    /\ clock = EpochStart
    /\ cycles = 0
    /\ printer_job_history = history
    /\ health_failures = [p \in PrinterIds |-> 0]
    /\ scen = 0
    /\ last = NoPoll
    /\ snapshot = NoSnapshot
    /\ printers_table = [p \in PrinterIds |-> NoTelemetry]
    /\ printer_job_filaments = filaments
    /\ attempt = NoAttempt

InitWith(rows, history) == MachineInit(rows, history, <<>>) /\ probe = NoProbe

Init == InitWith(<<1>>, <<>>)

\* Mutant: the printer is appended before the readiness wait and again once
\* the client is ready.
InitPrinter_AppendTwice(ping, fault, conn) ==
    LET printer_id == printers_data[init_idx]
        appended == ping /\ fault \in {"none", "timeout", "ready"}
        bound == IF ping /\ fault # "ctor" THEN printer_id ELSE printer_client
        raised == ping /\ fault \notin {"none", "timeout"}
        info == NewPrinterInfo(printer_id)
    IN  /\ active_printers' = IF appended /\ fault = "none" /\ conn
                              THEN active_printers \o <<info, info>>
                              ELSE IF appended THEN Append(active_printers, info)
                              ELSE active_printers
        /\ printer_client' = bound
        /\ connected' = [p \in PrinterIds |->
                            IF raised /\ p = bound THEN FALSE
                            ELSE IF ping /\ p = printer_id THEN conn
                            ELSE connected[p]]
        /\ init_idx' = init_idx + 1
        /\ attempt' = [id |-> printer_id, place |-> "startup",
                       ping |-> IF ping THEN "ok" ELSE "fail",
                       handshake |-> ping /\ fault # "ctor",
                       ready |-> IF ping /\ fault \in {"none", "timeout"}
                                 THEN (IF fault = "none" THEN "ready" ELSE "timeout")
                                 ELSE "none"]

\* One pass of the start-up loop (one row of printers_data). ping: result of
\* ping_host; fault: where the try block raises ("none"; "ctor": bl.Printer();
\* "start": mqtt_start(); "ready": the readiness wait after the append) or
\* "timeout": nothing raises and the readiness wait runs out; conn:
\* whether the client is connected when the pass ends (ping = FALSE also
\* stands for a row that is skipped for a missing field). The except branch
\* stops whatever client the name printer_client is bound to: after "ctor"
\* that is still the client of the previous pass.
InitPrinter(ping, fault, conn) ==
    LET printer_id == printers_data[init_idx]
        appended == ping /\ fault \in {"none", "timeout", "ready"}
        bound == IF ping /\ fault # "ctor" THEN printer_id ELSE printer_client
        raised == ping /\ fault \notin {"none", "timeout"}
    IN  /\ active_printers' = IF appended
                              THEN Append(active_printers, NewPrinterInfo(printer_id))
                              ELSE active_printers
        /\ printer_client' = bound
        /\ connected' = [p \in PrinterIds |->
                            IF raised /\ p = bound THEN FALSE
                            ELSE IF ping /\ p = printer_id THEN conn
                            ELSE connected[p]]
        /\ init_idx' = init_idx + 1
        /\ attempt' = [id |-> printer_id, place |-> "startup",
                       ping |-> IF ping THEN "ok" ELSE "fail",
                       handshake |-> ping /\ fault # "ctor",
                       ready |-> IF ping /\ fault \in {"none", "timeout"}
                                 THEN (IF fault = "none" THEN "ready" ELSE "timeout")
                                 ELSE "none"]

ConnectPrinter ==
    /\ phase = "init"
    /\ init_idx \in DOMAIN printers_data
    /\ \E ping \in BOOLEAN, fault \in {"none", "ctor", "start", "ready", "timeout"},
          conn \in BOOLEAN :
          InitPrinter(ping, fault, conn)
    /\ UNCHANGED <<printers_data, phase, unreachable_printers,
                   last_retry_attempt_time, idx,
                   clock, cycles, printer_job_history, health_failures, scen, last,
                   poll_vars>>

\* The finally block: every active printer whose client is connected is
\* stopped. stop_fails are the printers the block leaves connected: their
\* mqtt_stop() raises (caught and logged), or an is_connected() of the block
\* raised before their turn and ended the block.
Cleanup(conn, stop_fails) ==
    [p \in PrinterIds |->
        IF \E i \in DOMAIN active_printers : active_printers[i].id = p
        THEN conn[p] /\ p \in stop_fails
        ELSE conn[p]]

ActiveIds == {active_printers[i].id : i \in DOMAIN active_printers}

\* Mutant: the rows that were not connected at start-up are put on the
\* unreachable list.
StartMonitoring_ListsFailed ==
    /\ phase = "init"
    /\ init_idx = Len(printers_data) + 1
    /\ IF active_printers = <<>>
       THEN /\ phase' = "stopped"
            /\ UNCHANGED <<unreachable_printers, last_retry_attempt_time>>
       ELSE /\ phase' = "loop"
            /\ unreachable_printers' =
                   SelectSeq(printers_data, LAMBDA p : p \notin ActiveIds)
            /\ last_retry_attempt_time' = 0
    /\ idx' = 0
    /\ UNCHANGED <<printers_data, init_idx, active_printers, printer_client,
                   connected, clock, cycles, printer_job_history, health_failures, scen, last,
                   poll_vars>>
    /\ attempt' = NoAttempt

\* End of the start-up loop: exit when nothing was connected, else set up
\* the retry bookkeeping and enter the monitoring loop.
StartMonitoring ==
    /\ phase = "init"
    /\ init_idx = Len(printers_data) + 1
    /\ IF active_printers = <<>>
       THEN /\ phase' = "stopped"
            /\ UNCHANGED <<unreachable_printers, last_retry_attempt_time>>
       ELSE /\ phase' = "loop"
            /\ unreachable_printers' = <<>>
            /\ last_retry_attempt_time' = 0
    /\ idx' = 0
    /\ UNCHANGED <<printers_data, init_idx, active_printers, printer_client,
                   connected, clock, cycles, printer_job_history, health_failures, scen, last,
                   poll_vars>>
    /\ attempt' = NoAttempt

\* ------------------------------------------------ update_printer_table
\* progress_float: the percentage when it is a number in 0..100
ProgressFloat(p_percentage) ==
    IF p_percentage # NULL /\ 0 <= p_percentage[1] /\ p_percentage[1] <= 100
    THEN p_percentage
    ELSE NULL

\* Mutant: the telemetry is written only while the printer is printing.
UpdatePrinterTable_OnlyRunning(table, now, p_id, p_status, p_remaining_time_min, p_gcode_file, p_percentage, tel_ok) ==
    IF ~tel_ok \/ p_status # "RUNNING" THEN table
    ELSE [table EXCEPT ![p_id] =
             [last_poll_status |-> p_status,
              last_polled_at |-> <<now>>,
              remaining_time |-> IF p_remaining_time_min # NULL /\ p_remaining_time_min[1] >= 0
                                 THEN <<p_remaining_time_min[1] * 60>> ELSE NULL,
              current_print_job |-> p_gcode_file,
              Print_Progress |-> ProgressFloat(p_percentage)]]

\* Mutant: a failed UPDATE is not rolled back; the status column is written.
UpdatePrinterTable_NoRollback(table, now, p_id, p_status, p_remaining_time_min, p_gcode_file, p_percentage, tel_ok) ==
    IF ~tel_ok THEN [table EXCEPT ![p_id].last_poll_status = p_status,
                                  ![p_id].last_polled_at = <<now>>]
    ELSE [table EXCEPT ![p_id] =
             [last_poll_status |-> p_status,
              last_polled_at |-> <<now>>,
              remaining_time |-> IF p_remaining_time_min # NULL /\ p_remaining_time_min[1] >= 0
                                 THEN <<p_remaining_time_min[1] * 60>> ELSE NULL,
              current_print_job |-> p_gcode_file,
              Print_Progress |-> ProgressFloat(p_percentage)]]

\* update_printer_table: the new table printers. tel_ok = FALSE: the UPDATE
\* raises; the except branch logs the error and rolls back.
UpdatePrinterTable(table, now, p_id, p_status, p_remaining_time_min, p_gcode_file, p_percentage, tel_ok) ==
    IF ~tel_ok THEN table
    ELSE [table EXCEPT ![p_id] =
             [last_poll_status |-> p_status,
              last_polled_at |-> <<now>>,
              remaining_time |-> IF p_remaining_time_min # NULL /\ p_remaining_time_min[1] >= 0
                                 THEN <<p_remaining_time_min[1] * 60>> ELSE NULL,
              current_print_job |-> p_gcode_file,
              Print_Progress |-> ProgressFloat(p_percentage)]]

\* ---------------------------------------------------- log_job_filament
\* Mutant: the INSERT is executed twice and has no ON CONFLICT clause.
LogJobFilament_TwoRows(filaments, job_history_id, p_id, current_filament_info, fil_ok) ==
    LET row == [job_history_id |-> job_history_id, printer_id |-> p_id,
                filament |-> current_filament_info]
    IN  IF current_filament_info = None \/ job_history_id = 0 \/ ~fil_ok
        THEN filaments
        ELSE filaments \o <<row, row>>

\* log_job_filament: the new table printer_job_filaments. job_history_id = 0
\* stands for a falsy id; fil_ok = FALSE: the INSERT raises and is rolled back.
LogJobFilament(filaments, job_history_id, p_id, current_filament_info, fil_ok) ==
    IF current_filament_info = None \/ job_history_id = 0 \/ ~fil_ok
    THEN filaments
    ELSE IF \E i \in DOMAIN filaments : filaments[i].job_history_id = job_history_id
    THEN filaments
    ELSE Append(filaments, [job_history_id |-> job_history_id, printer_id |-> p_id,
                            filament |-> current_filament_info])

\* ------------------------------------------------------- log_job_event
\* Mutant: the duplicate check is dropped.
ExistingUnfinishedCount_Unchecked(history, p_id, current_filename) ==
    0

\* Mutant: the duplicate check counts finished rows (end_time IS NOT NULL).
ExistingUnfinishedCount_Closed(history, p_id, current_filename) ==
    Cardinality({i \in DOMAIN history :
                    /\ history[i].printer_id = p_id
                    /\ history[i].filename = current_filename
                    /\ history[i].end_time # NULL})

\* Mutant: the duplicate check looks at the remembered current_job_id of the
\* printer instead of the persisted rows.
ExistingUnfinishedCount_Memory(history, p_id, current_filename) ==
    IF \E i \in DOMAIN active_printers :
           active_printers[i].id = p_id /\ active_printers[i].current_job_id # NULL
    THEN 1 ELSE 0

\* SELECT COUNT(*) ... WHERE printer_id = p_id AND filename = current_filename
\* AND end_time IS NULL
ExistingUnfinishedCount(history, p_id, current_filename) ==
    Cardinality({i \in DOMAIN history :
                    /\ history[i].printer_id = p_id
                    /\ history[i].filename = current_filename
                    /\ history[i].end_time = NULL})

\* int(remaining_time_min * 60) when the remaining time is a number >= 0
RemainingSeconds(remaining_time_min) ==
    IF remaining_time_min # NULL /\ remaining_time_min[1] >= 0
    THEN <<remaining_time_min[1] * 60>>
    ELSE NULL

InOpenRange(percentage) ==
    percentage # NULL /\ 0 < percentage[1] /\ percentage[1] < 100

\* Mutant: the estimate divides by the percentage done, not by the rest.
TotalPrintTime_ByDone(remaining_time_min, percentage) ==
    LET remaining_seconds == RemainingSeconds(remaining_time_min)
    IN  IF remaining_seconds = NULL THEN NULL
        ELSE IF InOpenRange(percentage)
        THEN <<(remaining_seconds[1] * 100) \div percentage[1]>>
        ELSE remaining_seconds

\* The seconds of interval_string (NULL when it stays None).
TotalPrintTime(remaining_time_min, percentage) ==
    LET remaining_seconds == RemainingSeconds(remaining_time_min)
    IN  IF remaining_seconds = NULL THEN NULL
        ELSE IF InOpenRange(percentage)
        THEN <<(remaining_seconds[1] * 100) \div (100 - percentage[1])>>
        ELSE remaining_seconds

\* Microseconds in a second: the resolution of datetime and timedelta. A
\* point in time is <<seconds, microseconds>>.
Micro == 1000000

\* Mutant: the remaining time is scaled by the share that is done.
ElapsedSeconds_ByDone(percentage, remaining_seconds) ==
    LET n == percentage * remaining_seconds
        d == percentage
    IN  <<n \div d, (2 * (n % d) * Micro + d) \div (2 * d)>>

\* elapsed_seconds = percentage * remaining_seconds / (100 - percentage) as
\* timedelta(seconds=...) holds it: <<whole seconds, microseconds>>, rounded
\* to the nearest microsecond.
ElapsedSeconds(percentage, remaining_seconds) ==
    LET n == percentage * remaining_seconds
        d == 100 - percentage
    IN  <<n \div d, (2 * (n % d) * Micro + d) \div (2 * d)>>

\* now - timedelta, with now a whole number of seconds
MinusElapsed(now, elapsed) ==
    IF elapsed[2] = 0
    THEN <<now - elapsed[1], 0>>
    ELSE <<now - elapsed[1] - 1, Micro - elapsed[2]>>

\* Mutant: the start time is moved back by the estimated total duration.
ActualStartTime_Total(now, remaining_time_min, percentage) ==
    LET remaining_seconds == RemainingSeconds(remaining_time_min)
    IN  IF InOpenRange(percentage) /\ remaining_seconds # NULL
        THEN MinusElapsed(now - remaining_seconds[1],
                          ElapsedSeconds(percentage[1], remaining_seconds[1]))
        ELSE <<now, 0>>

\* actual_start_time
ActualStartTime(now, remaining_time_min, percentage) ==
    LET remaining_seconds == RemainingSeconds(remaining_time_min)
    IN  IF InOpenRange(percentage) /\ remaining_seconds # NULL
        THEN MinusElapsed(now, ElapsedSeconds(percentage[1], remaining_seconds[1]))
        ELSE <<now, 0>>

\* INSERT INTO printer_job_history ... RETURNING id
StartRow(p_id, current_filename, now, current_status, remaining_time_min, percentage) ==
    [printer_id |-> p_id,
     filename |-> current_filename,
     start_time |-> ActualStartTime(now, remaining_time_min, percentage),
     status |-> current_status,
     total_print_time |-> TotalPrintTime(remaining_time_min, percentage),
     end_time |-> NULL]

\* Mutant: the end UPDATE matches on the file name alone, not on the printer.
EndMatches_AnyPrinter(history, p_id, prev_filename) ==
    {i \in DOMAIN history :
        /\ history[i].filename = prev_filename
        /\ history[i].end_time = NULL}

\* Mutant: the end UPDATE matches on the printer alone, not on the file name.
EndMatches_AnyFile(history, p_id, prev_filename) ==
    {i \in DOMAIN history :
        /\ history[i].printer_id = p_id
        /\ history[i].end_time = NULL}

\* The rows the end UPDATE matches: WHERE printer_id = p_id AND filename =
\* prev_filename AND end_time IS NULL
EndMatches(history, p_id, prev_filename) ==
    {i \in DOMAIN history :
        /\ history[i].printer_id = p_id
        /\ history[i].filename = prev_filename
        /\ history[i].end_time = NULL}

\* Mutant: the end UPDATE sets end_time and leaves the status column alone.
EndUpdate_KeepStatus(history, now, current_status, p_id, prev_filename) ==
    [i \in DOMAIN history |->
        IF i \in EndMatches(history, p_id, prev_filename)
        THEN [history[i] EXCEPT !.end_time = <<now>>]
        ELSE history[i]]

\* UPDATE printer_job_history SET end_time = now, status = current_status
EndUpdate(history, now, current_status, p_id, prev_filename) ==
    [i \in DOMAIN history |->
        IF i \in EndMatches(history, p_id, prev_filename)
        THEN [history[i] EXCEPT !.end_time = <<now>>, !.status = current_status]
        ELSE history[i]]

\* for printer in active_printers: if printer["id"] == p_id: ...; break
SetCurrentJobId(printers, p_id, job_id) ==
    LET hits == {i \in DOMAIN printers : printers[i].id = p_id}
    IN  IF hits = {} THEN printers
        ELSE LET first == CHOOSE i \in hits : \A j \in hits : i <= j
             IN  [printers EXCEPT ![first].current_job_id = job_id]

IsStart(current_status, current_filename, prev_status) ==
    /\ prev_status # "RUNNING"
    /\ current_status = "RUNNING"
    /\ current_filename \notin {None, ""}

\* Mutant: only a change to FINISH counts as the end of a job.
IsEnd_OnlyFinish(current_status, prev_status, prev_filename) ==
    /\ prev_status = "RUNNING"
    /\ current_status = "FINISH"
    /\ prev_filename \notin {None, ""}

\* Mutant: only a change to IDLE counts as the end of a job.
IsEnd_OnlyIdle(current_status, prev_status, prev_filename) ==
    /\ prev_status = "RUNNING"
    /\ current_status = "IDLE"
    /\ prev_filename \notin {None, ""}

IsEnd(current_status, prev_status, prev_filename) ==
    /\ prev_status = "RUNNING"
    /\ current_status # "RUNNING"
    /\ prev_filename \notin {None, ""}

\* log_job_event: the new job history, the new active_printers and what was
\* printed ("START", "END", "WARN", "ERROR", "NONE", or "SKIP" for the
\* commented-out message of a start the duplicate check suppressed) and the
\* new printer_job_filaments. db_ok = FALSE: a database call of the function
\* raises; the except branch rolls back.
LogJobEvent(history, printers, filaments, now, p_id, current_status, current_filename, prev_status, prev_filename, remaining_time_min, percentage, current_filament_info, db_ok, fil_ok) ==
    LET same(e) == [history |-> history, printers |-> printers,
                    filaments |-> filaments, event |-> e]
        job_id == Len(history) + 1
    IN  IF ~db_ok
        THEN same("ERROR")
        ELSE IF IsStart(current_status, current_filename, prev_status)
        THEN IF ExistingUnfinishedCount(history, p_id, current_filename) = 0
             THEN [history |-> Append(history,
                                  StartRow(p_id, current_filename, now, current_status,
                                           remaining_time_min, percentage)),
                   printers |-> SetCurrentJobId(printers, p_id, <<job_id>>),
                   filaments |-> LogJobFilament(filaments, job_id, p_id,
                                                current_filament_info, fil_ok),
                   event |-> "START"]
             ELSE same("SKIP")
        ELSE IF IsEnd(current_status, prev_status, prev_filename)
        THEN IF EndMatches(history, p_id, prev_filename) # {}
             THEN [history |-> EndUpdate(history, now, current_status, p_id, prev_filename),
                   printers |-> IF current_status = "FINISH"
                                THEN SetCurrentJobId(printers, p_id, NULL)
                                ELSE printers,
                   filaments |-> filaments,
                   event |-> "END"]
             ELSE same("WARN")
        ELSE same("NONE")

\* gcode_file = client.gcode_file() or "[dim]N/A[/]"
GcodeFile(raw) == IF raw = "" THEN NA ELSE raw

\* ------------------------------------------------- the monitoring loop
\* The retry block at the top of a cycle. out[p] is how the retry of printer
\* p goes: "ping_fail", "ready", "timeout" or "raise".
RetryReady(unreachable, out) == SelectSeq(unreachable, LAMBDA p : out[p] = "ready")

RetryRemaining(unreachable, out) == SelectSeq(unreachable, LAMBDA p : out[p] # "ready")

RetryAppended(unreachable, out) ==
    [i \in DOMAIN RetryReady(unreachable, out) |->
        NewPrinterInfo(RetryReady(unreachable, out)[i])]

RetryDue == unreachable_printers # <<>>
            /\ clock - last_retry_attempt_time >= RETRY_INTERVAL_SECONDS

RetryUnreachable ==
    /\ phase = "loop"
    /\ idx = 0
    /\ IF RetryDue
       THEN \E out \in [PrinterIds -> {"ping_fail", "ready", "timeout", "raise"}] :
               /\ last_retry_attempt_time' = clock
               /\ active_printers' =
                      active_printers \o RetryAppended(unreachable_printers, out)
               /\ unreachable_printers' = RetryRemaining(unreachable_printers, out)
               /\ connected' =
                      [p \in PrinterIds |->
                          IF \E i \in DOMAIN unreachable_printers :
                                 unreachable_printers[i] = p /\ out[p] # "ping_fail"
                          THEN out[p] = "ready"
                          ELSE connected[p]]
               /\ printer_client' =
                      LET tried == {i \in DOMAIN unreachable_printers :
                                       out[unreachable_printers[i]] # "ping_fail"}
                      IN  IF tried = {} THEN printer_client
                          ELSE unreachable_printers[
                                   CHOOSE i \in tried : \A j \in tried : j <= i]
               /\ attempt' =
                      LET p == unreachable_printers[Len(unreachable_printers)]
                      IN  [id |-> p, place |-> "retry",
                           ping |-> IF out[p] = "ping_fail" THEN "fail" ELSE "ok",
                           handshake |-> out[p] # "ping_fail",
                           ready |-> IF out[p] \in {"ready", "timeout"} THEN out[p]
                                     ELSE "none"]
       ELSE /\ attempt' = NoAttempt
            /\ UNCHANGED <<last_retry_attempt_time, active_printers,
                           unreachable_printers, connected, printer_client>>
    /\ idx' = 1
    /\ UNCHANGED <<printers_data, phase, init_idx, clock, cycles,
                   printer_job_history, health_failures, scen, last, poll_vars>>

\* Mutant: the last log time advances although the INSERT failed.
LogStatusPeriodically_AlwaysAdvance(last_log_time, current_time, log_ok) ==
    IF current_time - last_log_time >= LOG_INTERVAL_SECONDS
    THEN current_time
    ELSE last_log_time

\* log_status_periodically: the new last_log_timestamp of the printer.
LogStatusPeriodically(last_log_time, current_time, log_ok) ==
    IF current_time - last_log_time >= LOG_INTERVAL_SECONDS /\ log_ok
    THEN current_time
    ELSE last_log_time

\* What a pass that processes no snapshot leaves on the console: the loop
\* went on to the next printer ("CONTINUE"), or an exception was raised, named
\* after the call that raised it.
PassEvent(outcome) ==
    CASE outcome = "alive_raise" -> "EXC_IS_CONNECTED"
      [] outcome = "reconnect_raise" -> "EXC_RECONNECT"
      [] outcome = "ready_raise" -> "EXC_READY"
      [] outcome = "status_raise" -> "EXC_STATUS"
      [] outcome = "status_hang" -> "HANG"
      [] OTHER -> "CONTINUE"

\* Consecutive passes of a printer that ended without a snapshot, counted up
\* to the quarantine threshold; a pass that yields a snapshot resets it.
FailedPass(count) ==
    IF count < QuarantineThreshold THEN count + 1 ELSE count

\* Mutant: the remembered state is kept when log_job_event printed an error.
UpdatePreviousState_UnlessError(printers, i, status, gcode_file, event) ==
    IF event = "ERROR" THEN printers
    ELSE [printers EXCEPT ![i].previous_status = status,
                          ![i].previous_filename = gcode_file]

\* printer_info["previous_status"] = status and printer_info
\* ["previous_filename"] = gcode_file after log_job_event has returned,
\* whatever it printed (event).
UpdatePreviousState(printers, i, status, gcode_file, event) ==
    [printers EXCEPT ![i].previous_status = status,
                     ![i].previous_filename = gcode_file]

\* One pass of "for printer_info in active_printers". outcome says how far
\* the pass gets; the other arguments are the snapshot the client reports
\* and whether the database calls of update_printer_table (tel_ok),
\* log_status_periodically (log_ok), log_job_event (db_ok) and
\* log_job_filament (fil_ok) succeed.
PollStep(outcome, status, raw, progress, filament, log_ok, tel_ok, db_ok, fil_ok, stop_fails) ==
    LET printer_info == active_printers[idx]
        printer_id == printer_info.id
        previous_status == printer_info.previous_status
        previous_filename == printer_info.previous_filename
        gcode_file == GcodeFile(raw)
        percentage == progress[1]
        remaining_time_min == progress[2]
        alive == [connected EXCEPT ![printer_id] =
                     outcome \notin {"reconnect_fail", "reconnect_raise"}]
        logged == [active_printers EXCEPT ![idx].last_log_timestamp =
                      LogStatusPeriodically(@, clock, log_ok)]
        job == LogJobEvent(printer_job_history, logged, printer_job_filaments, clock,
                           printer_id, status, gcode_file, previous_status,
                           previous_filename, remaining_time_min, percentage,
                           filament, db_ok, fil_ok)
        seen == [id |-> printer_id, fresh |-> FALSE, event |-> PassEvent(outcome),
                 tel_error |-> FALSE]
    IN  /\ outcome \in {"reconnect_fail", "reconnect_raise"} => ~connected[printer_id]
        \* a client found disconnected is restarted: mqtt_stop(), mqtt_start()
        \* ("reconnect_raise": mqtt_start() raises)
        /\ attempt' = IF outcome # "alive_raise" /\ ~connected[printer_id]
                      THEN [id |-> printer_id, place |-> "poll", ping |-> "none",
                            handshake |-> TRUE, ready |-> "none"]
                      ELSE NoAttempt
        /\ CASE outcome = "alive_raise" ->
                \* the exception leaves the while loop; the finally block runs
                /\ phase' = "stopped"
                /\ connected' = Cleanup(connected, stop_fails)
                /\ last' = seen
                /\ health_failures' = [health_failures EXCEPT ![printer_id] = FailedPass(@)]
                /\ UNCHANGED <<idx, active_printers, printer_job_history, snapshot,
                               printers_table, printer_job_filaments>>
             [] outcome = "ready_raise" ->
                /\ phase' = "stopped"
                /\ connected' = Cleanup(alive, stop_fails)
                /\ last' = seen
                /\ health_failures' = [health_failures EXCEPT ![printer_id] = FailedPass(@)]
                /\ UNCHANGED <<idx, active_printers, printer_job_history, snapshot,
                               printers_table, printer_job_filaments>>
             [] outcome \in {"reconnect_fail", "reconnect_raise", "not_ready",
                             "status_raise"} ->
                \* continue, or the except branch of the status try block
                /\ connected' = alive
                /\ idx' = idx + 1
                /\ last' = seen
                /\ health_failures' = [health_failures EXCEPT ![printer_id] = FailedPass(@)]
                /\ UNCHANGED <<phase, active_printers, printer_job_history, snapshot,
                               printers_table, printer_job_filaments>>
             [] outcome = "status_hang" ->
                \* a read of the status block never returns: the loop is
                \* stuck in the call until the script is interrupted
                /\ phase' = "blocked"
                /\ connected' = alive
                /\ last' = seen
                /\ UNCHANGED <<idx, active_printers, printer_job_history,
                               health_failures, snapshot, printers_table,
                               printer_job_filaments>>
             [] outcome = "snapshot" ->
                /\ Len(job.history) <= MaxJobs
                /\ connected' = alive
                /\ snapshot' = [status |-> status, percentage |-> percentage,
                                gcode_file |-> gcode_file,
                                remaining_time_min |-> remaining_time_min,
                                current_filament_info |-> filament]
                /\ printers_table' =
                       UpdatePrinterTable(printers_table, clock, printer_id, status,
                                          remaining_time_min,
                                          IF gcode_file # NA THEN gcode_file ELSE None,
                                          percentage, tel_ok)
                /\ printer_job_history' = job.history
                /\ printer_job_filaments' = job.filaments
                /\ active_printers' =
                       UpdatePreviousState(job.printers, idx, status, gcode_file, job.event)
                /\ idx' = idx + 1
                /\ last' = [id |-> printer_id, fresh |-> previous_status = None,
                            event |-> job.event, tel_error |-> ~tel_ok]
                /\ health_failures' = [health_failures EXCEPT ![printer_id] = 0]
                /\ UNCHANGED phase

\* What client.vt_tray() yields as current_filament_info.
Filaments == {None, "PLA"}

PollPrinter ==
    /\ phase = "loop"
    /\ idx \in DOMAIN active_printers
    /\ \/ \E outcome \in {"alive_raise", "ready_raise"}, stop_fails \in SUBSET PrinterIds :
             PollStep(outcome, "IDLE", "", <<NULL, NULL>>, None, TRUE, TRUE, TRUE, TRUE, stop_fails)
       \/ \E outcome \in {"reconnect_fail", "reconnect_raise", "not_ready",
                           "status_raise", "status_hang"} :
             PollStep(outcome, "IDLE", "", <<NULL, NULL>>, None, TRUE, TRUE, TRUE, TRUE, {})
       \/ \E status \in States, raw \in RawFiles, progress \in Progress,
             filament \in {"PLA"}, log_ok \in {TRUE}, tel_ok \in {TRUE},
             db_ok \in BOOLEAN, fil_ok \in {TRUE} :
             PollStep("snapshot", status, raw, progress, filament, log_ok, tel_ok, db_ok, fil_ok, {})
    /\ UNCHANGED <<printers_data, init_idx, printer_client, unreachable_printers,
                   last_retry_attempt_time, clock, cycles, scen, probe>>

\* time.sleep(10) at the end of a cycle; the cycle took `duration` seconds.
SleepFor(max_cycles) ==
    /\ phase = "loop"
    /\ idx = Len(active_printers) + 1
    /\ cycles < max_cycles
    /\ \E duration \in CycleDurations : clock' = clock + duration
    /\ cycles' = cycles + 1
    /\ idx' = 0
    /\ UNCHANGED <<printers_data, phase, init_idx, active_printers, printer_client,
                   unreachable_printers, last_retry_attempt_time, connected,
                   printer_job_history, health_failures, scen, last, poll_vars>>
    /\ attempt' = NoAttempt

Sleep == SleepFor(MaxCycles)

\* The broker or the network drops a client's connection.
ConnectionLost ==
    /\ phase = "loop"
    /\ \E p \in ActiveIds :
          /\ connected[p]
          /\ connected' = [connected EXCEPT ![p] = FALSE]
    /\ UNCHANGED <<printers_data, phase, init_idx, active_printers, printer_client,
                   unreachable_printers, last_retry_attempt_time, idx, clock,
                   cycles, printer_job_history, health_failures, scen, last, poll_vars>>
    /\ attempt' = NoAttempt

\* Ctrl+C: KeyboardInterrupt leaves the try block, the finally block runs.
Shutdown ==
    /\ phase \in {"init", "loop", "blocked"}
    /\ phase' = "stopped"
    /\ \E stop_fails \in SUBSET PrinterIds :
          connected' = Cleanup(connected, stop_fails)
    /\ last' = [NoPoll EXCEPT !.event = "INTERRUPT"]
    /\ UNCHANGED <<printers_data, init_idx, active_printers, printer_client,
                   unreachable_printers, last_retry_attempt_time, idx, clock,
                   cycles, printer_job_history, health_failures, scen, poll_vars>>
    /\ attempt' = NoAttempt

\* The script is started again: memory is fresh, the database is kept.
Restart ==
    /\ phase = "stopped"
    /\ phase' = "init"
    /\ init_idx' = 1
    /\ active_printers' = <<>>
    /\ printer_client' = 0
    /\ unreachable_printers' = <<>>
    /\ last_retry_attempt_time' = 0
    /\ idx' = 0
    /\ connected' = [p \in PrinterIds |-> FALSE]
    /\ health_failures' = [p \in PrinterIds |-> 0]
    /\ last' = NoPoll
    /\ snapshot' = NoSnapshot
    /\ attempt' = NoAttempt
    /\ UNCHANGED <<printers_data, clock, cycles, printer_job_history, scen,
                   printers_table, printer_job_filaments, probe>>

Next ==
    \/ ConnectPrinter
    \/ StartMonitoring
    \/ RetryUnreachable
    \/ PollPrinter
    \/ Sleep
    \/ ConnectionLost
    \/ Shutdown
    \/ Restart

Spec == Init /\ [][Next]_vars

\* ------------------------------------------- the end-to-end scenario
\* The snapshots printer 1 reports, in order: IDLE, RUNNING (a.job, 0 %),
\* RUNNING (a.job, 50 %), FINISH. The file name the printer reports while
\* it is not printing is left open.
Scenario ==
    << [status |-> "IDLE", files |-> RawFiles, progress |-> <<NULL, NULL>>],
       [status |-> "RUNNING", files |-> {"a.job"}, progress |-> <<<<0>>, <<30>>>>],
       [status |-> "RUNNING", files |-> {"a.job"}, progress |-> <<<<50>>, <<15>>>>],
       [status |-> "FINISH", files |-> RawFiles, progress |-> <<<<100>>, <<0>>>>] >>

\* Job histories earlier runs can have left behind in which printer 1 has no
\* open job: none, a finished job of the same file, an open job of printer 2.
PriorHistories ==
    { <<>>,
      << [printer_id |-> 1, filename |-> "a.job", start_time |-> <<0, 0>>,
          status |-> "FINISH", total_print_time |-> <<3600>>, end_time |-> <<3600>>] >>,
      << [printer_id |-> 2, filename |-> "a.job", start_time |-> <<0, 0>>,
          status |-> "RUNNING", total_print_time |-> NULL, end_time |-> NULL] >> }

InitScenario == \E history \in PriorHistories : InitWith(<<1, 2>>, history)

\* A pass of the poll loop in the scenario: printer 1 reports the next
\* snapshot of the scenario (and none once it is through), printer 2 reports
\* anything; a pass can also be skipped or raise.
PollScenario ==
    /\ phase = "loop"
    /\ idx \in DOMAIN active_printers
    /\ \/ /\ \E outcome \in {"alive_raise", "ready_raise"} :
                PollStep(outcome, "IDLE", "", <<NULL, NULL>>, None, TRUE, TRUE, TRUE, TRUE, {})
          /\ UNCHANGED scen
       \/ /\ \E outcome \in {"reconnect_fail", "reconnect_raise", "not_ready",
                              "status_raise"} :
                PollStep(outcome, "IDLE", "", <<NULL, NULL>>, None, TRUE, TRUE, TRUE, TRUE, {})
          /\ UNCHANGED scen
       \/ /\ active_printers[idx].id = 1
          /\ scen < Len(Scenario)
          /\ \E raw \in Scenario[scen + 1].files :
                PollStep("snapshot", Scenario[scen + 1].status, raw,
                         Scenario[scen + 1].progress, "PLA", TRUE, TRUE, TRUE, TRUE, {})
          /\ scen' = scen + 1
       \/ /\ active_printers[idx].id # 1
          /\ \E status \in States, db_ok \in BOOLEAN :
                PollStep("snapshot", status, "a.job", <<NULL, NULL>>, "PLA", TRUE, TRUE, db_ok, TRUE, {})
          /\ UNCHANGED scen
    /\ UNCHANGED <<printers_data, init_idx, printer_client, unreachable_printers,
                   last_retry_attempt_time, clock, cycles, probe>>

SleepScenario == SleepFor(MaxScenarioCycles)

NextScenario ==
    \/ ConnectPrinter
    \/ StartMonitoring
    \/ RetryUnreachable
    \/ PollScenario
    \/ SleepScenario
    \/ ConnectionLost

SpecScenario == InitScenario /\ [][NextScenario]_vars

\* ------------------------------------------------- a fleet of two printers
\* Two printers that print the same file or idle; the telemetry UPDATE can
\* fail, the filament can be unknown.
InitFleet == InitWith(<<1, 2>>, <<>>)

PollFleet ==
    /\ phase = "loop"
    /\ idx \in DOMAIN active_printers
    /\ \/ \E outcome \in {"alive_raise", "ready_raise"}, stop_fails \in SUBSET PrinterIds :
             PollStep(outcome, "IDLE", "", <<NULL, NULL>>, None, TRUE, TRUE, TRUE, TRUE, stop_fails)
       \/ \E outcome \in {"reconnect_fail", "reconnect_raise", "not_ready",
                           "status_raise", "status_hang"} :
             PollStep(outcome, "IDLE", "", <<NULL, NULL>>, None, TRUE, TRUE, TRUE, TRUE, {})
       \/ \E status \in {"IDLE", "RUNNING"}, progress \in Progress,
             filament \in Filaments, tel_ok \in BOOLEAN :
             PollStep("snapshot", status, "a.job", progress, filament, TRUE, tel_ok, TRUE, TRUE, {})
    /\ UNCHANGED <<printers_data, init_idx, printer_client, unreachable_printers,
                   last_retry_attempt_time, clock, cycles, scen, probe>>

SleepFleet == SleepFor(MaxFleetCycles)

NextFleet ==
    \/ ConnectPrinter
    \/ StartMonitoring
    \/ RetryUnreachable
    \/ PollFleet
    \/ SleepFleet
    \/ ConnectionLost

SpecFleet == InitFleet /\ [][NextFleet]_vars

\* ------------------------------------------- the start estimates alone
\* The percentages and remaining minutes a printer can report at a start.
Percentages == {NULL} \cup {<<n>> : n \in 0..100}

RemainingTimes == {NULL} \cup {<<n>> : n \in 0..MaxRemainingMin} \cup {<<30>>}

InitEstimate ==
    /\ MachineInit(<<1>>, <<>>, <<>>)
    /\ probe \in [percentage : Percentages, remaining_time_min : RemainingTimes,
                   row : {NULL}]

\* The row log_job_event inserts at time `clock` for the reported progress.
Estimate ==
    /\ probe.row = NULL
    /\ probe' = [probe EXCEPT !.row =
                     <<StartRow(1, "a.job", clock, "RUNNING",
                                probe.remaining_time_min, probe.percentage)>>]
    /\ UNCHANGED <<printers_data, phase, init_idx, active_printers, printer_client,
                   unreachable_printers, last_retry_attempt_time, idx, connected,
                   clock, cycles, printer_job_history, health_failures, scen, last,
                   snapshot, printers_table, printer_job_filaments, attempt>>

NextEstimate == Estimate

SpecEstimate == InitEstimate /\ [][NextEstimate]_vars

\* ------------------------------------------- the active-slot indicator
\* Mutant: code 16 is taken for a holder slot.
DecodeActiveSlot_Sixteen(code) ==
    IF code <= 16
    THEN [kind |-> "holder", holder |-> <<code \div 4>>, position |-> <<code % 4>>]
    ELSE IF code \in {254, 255}
    THEN [kind |-> "external", holder |-> NULL, position |-> NULL]
    ELSE [kind |-> "unknown", holder |-> NULL, position |-> NULL]

\* Decoding of the integer the printer reports for the slot that feeds the
\* extruder (spec 4.4).
DecodeActiveSlot(code) ==
    IF code < 16
    THEN [kind |-> "holder", holder |-> <<code \div 4>>, position |-> <<code % 4>>]
    ELSE IF code \in {254, 255}
    THEN [kind |-> "external", holder |-> NULL, position |-> NULL]
    ELSE [kind |-> "unknown", holder |-> NULL, position |-> NULL]

\* Mutant: the matching entry's wasUsed is flipped instead of set.
UsageLedgerUpdate_Toggle(ledger, job_id, code) ==
    LET slot == DecodeActiveSlot(code)
    IN  IF slot.kind # "holder" THEN ledger
        ELSE [i \in DOMAIN ledger |->
                 IF /\ ledger[i].job_id = job_id
                    /\ <<ledger[i].holder>> = slot.holder
                    /\ <<ledger[i].position>> = slot.position
                 THEN [ledger[i] EXCEPT !.wasUsed = ~ledger[i].wasUsed]
                 ELSE ledger[i]]

\* The usage-ledger update (spec 4.4): when the code resolves to a holder and
\* a position, the matching entry of the job gets wasUsed = TRUE.
UsageLedgerUpdate(ledger, job_id, code) ==
    LET slot == DecodeActiveSlot(code)
    IN  IF slot.kind # "holder" THEN ledger
        ELSE [i \in DOMAIN ledger |->
                 IF /\ ledger[i].job_id = job_id
                    /\ <<ledger[i].holder>> = slot.holder
                    /\ <<ledger[i].position>> = slot.position
                 THEN [ledger[i] EXCEPT !.wasUsed = TRUE]
                 ELSE ledger[i]]

\* Usage ledgers of job 1: one entry per holder position, none used yet, or
\* the entry of slot (0, 0) used.
Ledgers ==
    LET entry(n, used) ==
            [job_id |-> 1, holder |-> (n - 1) \div 4, position |-> (n - 1) % 4,
             wasUsed |-> used]
    IN  { [n \in 1..16 |-> entry(n, FALSE)],
          [n \in 1..16 |-> entry(n, n = 1)] }

InitDecode ==
    /\ MachineInit(<<1>>, <<>>, <<>>)
    /\ probe \in [code : 0..MaxSlotCode, ledger : Ledgers, slot : {NULL},
                   updated : {NULL}]

Decode ==
    /\ probe.slot = NULL
    /\ probe' = [probe EXCEPT !.slot = <<DecodeActiveSlot(probe.code)>>,
                              !.updated = <<UsageLedgerUpdate(probe.ledger, 1, probe.code)>>]
    /\ UNCHANGED <<printers_data, phase, init_idx, active_printers, printer_client,
                   unreachable_printers, last_retry_attempt_time, idx, connected,
                   clock, cycles, printer_job_history, health_failures, scen, last,
                   snapshot, printers_table, printer_job_filaments, attempt>>

NextDecode == Decode

SpecDecode == InitDecode /\ [][NextDecode]_vars

\* ------------------------------------------------ the filaments of a job
\* Tables printer_job_filaments earlier job starts can have left behind.
PriorFilaments ==
    { <<>>,
      << [job_history_id |-> 1, printer_id |-> 1, filament |-> "PLA"] >>,
      << [job_history_id |-> 2, printer_id |-> 1, filament |-> "PETG"] >>,
      << [job_history_id |-> 1, printer_id |-> 1, filament |-> "PLA"],
         [job_history_id |-> 2, printer_id |-> 1, filament |-> "PETG"] >> }

\* The active-slot codes the usage-ledger update is called with: the ones
\* spec 4.4 and its examples name.
LedgerCodes == {0, 5, 15, 16, 254, 255}

InitLedger ==
    /\ \E filaments \in PriorFilaments : MachineInit(<<1>>, <<>>, filaments)
    /\ probe \in [op : {"none"}, job_history_id : {0}, filament : {None},
                   code : {0}, calls : {0}, repeat : {FALSE}, ledger : Ledgers]

\* log_job_filament is called for a job (0: a falsy id) with the current
\* filament; the INSERT can raise.
LogFilament ==
    /\ probe.calls < MaxLedgerCalls
    /\ \E job_history_id \in 0..MaxJobs, filament \in Filaments \cup {"PETG"},
          fil_ok \in BOOLEAN :
          /\ printer_job_filaments' =
                 LogJobFilament(printer_job_filaments, job_history_id, 1, filament, fil_ok)
          /\ probe' = [probe EXCEPT
                           !.op = "log_job_filament",
                           !.job_history_id = job_history_id,
                           !.filament = filament,
                           !.calls = probe.calls + 1,
                           !.repeat = /\ probe.op = "log_job_filament"
                                      /\ probe.job_history_id = job_history_id
                                      /\ probe.filament = filament]
    /\ UNCHANGED <<printers_data, phase, init_idx, active_printers, printer_client,
                   unreachable_printers, last_retry_attempt_time, idx, connected,
                   clock, cycles, printer_job_history, health_failures, scen, last,
                   snapshot, printers_table, attempt>>

\* The usage-ledger update of job 1 on a RUNNING poll that reported `code`.
UpdateUsage ==
    /\ probe.calls < MaxLedgerCalls
    /\ \E code \in LedgerCodes :
          probe' = [probe EXCEPT
                       !.op = "usage_update",
                       !.code = code,
                       !.calls = probe.calls + 1,
                       !.repeat = probe.op = "usage_update" /\ probe.code = code,
                       !.ledger = UsageLedgerUpdate(probe.ledger, 1, code)]
    /\ UNCHANGED <<printers_data, phase, init_idx, active_printers, printer_client,
                   unreachable_printers, last_retry_attempt_time, idx, connected,
                   clock, cycles, printer_job_history, health_failures, scen, last,
                   snapshot, printers_table, printer_job_filaments, attempt>>

NextLedger ==
    \/ LogFilament
    \/ UpdateUsage

SpecLedger == InitLedger /\ [][NextLedger]_vars

\* --------------------------------- one printer tracked over several cycles
\* The job history an earlier run can have left: empty, or an open row of
\* printer 1 for b.job (the run was stopped while b.job was printing).
PriorTrackHistories ==
    { <<>>,
      << [printer_id |-> 1, filename |-> "b.job", start_time |-> <<0, 0>>,
          status |-> "RUNNING", total_print_time |-> NULL, end_time |-> NULL] >> }

InitTrack == \E history \in PriorTrackHistories : InitWith(<<1>>, history)

\* A pass of the poll loop: it is skipped, its status reads raise, or the
\* printer reports RUNNING or IDLE with one of two file names; the database
\* calls of log_job_event can fail.
PollTrack ==
    /\ phase = "loop"
    /\ idx \in DOMAIN active_printers
    /\ \/ \E outcome \in {"reconnect_fail", "reconnect_raise", "not_ready",
                           "status_raise"} :
             PollStep(outcome, "IDLE", "", <<NULL, NULL>>, None, TRUE, TRUE, TRUE, TRUE, {})
       \/ \E status \in {"RUNNING", "IDLE"}, raw \in {"a.job", "b.job"},
             db_ok \in BOOLEAN :
             PollStep("snapshot", status, raw, <<NULL, NULL>>, "PLA", TRUE, TRUE, db_ok, TRUE, {})
    /\ UNCHANGED <<printers_data, init_idx, printer_client, unreachable_printers,
                   last_retry_attempt_time, clock, cycles, scen, probe>>

SleepTrack == SleepFor(MaxTrackCycles)

NextTrack ==
    \/ ConnectPrinter
    \/ StartMonitoring
    \/ RetryUnreachable
    \/ PollTrack
    \/ SleepTrack
    \/ ConnectionLost

SpecTrack == InitTrack /\ [][NextTrack]_vars

\* ------------------------------------- the filaments a job start records
\* The trays the loop collects into ams_filament_info: up to four AMS units
\* of four trays each.
AmsTrays == 0..16

\* A start of job a.job on printer 1 that reports an external spool
\* (current_filament_info) and loaded AMS trays.
InitMaterial ==
    /\ MachineInit(<<1>>, <<>>, <<>>)
    /\ probe \in [current_filament_info : Filaments \cup {"PETG"},
                   ams_trays : AmsTrays, job : {NULL}]

\* log_job_event for the first RUNNING snapshot; ams_filament_info is not
\* among its arguments.
JobStart ==
    /\ probe.job = NULL
    /\ \E fil_ok \in BOOLEAN :
          LET job == LogJobEvent(printer_job_history, active_printers,
                                 printer_job_filaments, clock, 1, "RUNNING", "a.job",
                                 None, None, <<30>>, <<50>>,
                                 probe.current_filament_info, TRUE, fil_ok)
          IN  /\ printer_job_history' = job.history
              /\ printer_job_filaments' = job.filaments
              /\ probe' = [probe EXCEPT !.job = <<Len(job.history)>>]
    /\ UNCHANGED <<printers_data, phase, init_idx, active_printers, printer_client,
                   unreachable_printers, last_retry_attempt_time, idx, connected,
                   clock, cycles, health_failures, scen, last,
                   snapshot, printers_table, attempt>>

NextMaterial == JobStart

SpecMaterial == InitMaterial /\ [][NextMaterial]_vars

\* ------------------------------------------------ update_filament_table
\* A row of printer_filaments: printer_id, ams_id, tray_id, is_active and
\* filament_id, which stands for the thirteen data columns (they are all
\* None in a placeholder row).
FilamentRow(p_id, ams_id, tray_id, filament_id, is_active) ==
    [printer_id |-> p_id, ams_id |-> ams_id, tray_id |-> tray_id,
     filament_id |-> filament_id, is_active |-> is_active]

\* The AMS units the hub of the printer has, the tray positions of a unit
\* (range(4)) and the tray_info_idx values trays report.
HubUnits == 0..1
TrayIds == 0..3
TrayIdx == {"GFA00", "GFB00"}
Absent == "absent"

\* ams_filament_info as the poll loop builds it from what the hub reports
\* (reported[<<unit, position>>] is the tray_info_idx of the tray or Absent):
\* one entry per unit in ascending order, its trays in ascending order; a
\* unit without trays is not added.
AmsFilamentInfo(reported) ==
    LET trays(u) ==
            SelectSeq([k \in 1..4 |-> [tray_id |-> k - 1,
                                       tray_info_idx |-> reported[<<u, k - 1>>]]],
                      LAMBDA tray : tray.tray_info_idx # Absent)
    IN  SelectSeq([k \in 1..Cardinality(HubUnits) |->
                       [ams_id |-> k - 1, trays |-> trays(k - 1)]],
                  LAMBDA ams : ams.trays # <<>>)

\* existing_trays of one unit: the trays of the first entry of
\* p_ams_filament_info whose ams_id is the unit.
ExistingTrays(p_ams_filament_info, ams_id) ==
    LET hits == {i \in DOMAIN p_ams_filament_info :
                    p_ams_filament_info[i].ams_id = ams_id}
    IN  IF hits = {} THEN <<>>
        ELSE p_ams_filament_info[CHOOSE i \in hits : \A j \in hits : i <= j].trays

\* Mutant: every tray row is active as soon as a current filament is known.
IsActive_AnyTray(p_current_filament_info, filament_id) ==
    IF p_current_filament_info = None THEN NULL
    ELSE <<TRUE>>

\* is_active = (p_current_filament_info and p_current_filament_info.get(
\* 'tray_info_idx') == tray_data['filament_id']): None when no current
\* filament is known. The current filament is modelled by its tray_info_idx.
IsActive(p_current_filament_info, filament_id) ==
    IF p_current_filament_info = None THEN NULL
    ELSE <<p_current_filament_info = filament_id>>

\* Mutant: only the trays that were reported get a row.
AmsRows_Sparse(p_id, ams_count, p_current_filament_info, p_ams_filament_info) ==
    LET row(k) ==
            LET ams_id == (k - 1) \div 4
                tray_id == (k - 1) % 4
                existing_trays == ExistingTrays(p_ams_filament_info, ams_id)
                hits == {i \in DOMAIN existing_trays : existing_trays[i].tray_id = tray_id}
            IN  IF hits # {}
                THEN LET tray == existing_trays[CHOOSE i \in hits : \A j \in hits : j <= i]
                     IN  FilamentRow(p_id, <<ams_id>>, <<tray_id>>, tray.tray_info_idx,
                                     IsActive(p_current_filament_info, tray.tray_info_idx))
                ELSE FilamentRow(p_id, <<ams_id>>, <<tray_id>>, None, <<FALSE>>)
    IN  SelectSeq([k \in 1..(4 * ams_count) |-> row(k)],
                  LAMBDA r : r.filament_id # None)

\* The rows of a printer with AMS units: for ams_id in range(ams_count), for
\* tray_id in range(4), the data of the tray when existing_trays has the
\* position (the last tray with that tray_id), else a placeholder.
AmsRows(p_id, ams_count, p_current_filament_info, p_ams_filament_info) ==
    LET row(k) ==
            LET ams_id == (k - 1) \div 4
                tray_id == (k - 1) % 4
                existing_trays == ExistingTrays(p_ams_filament_info, ams_id)
                hits == {i \in DOMAIN existing_trays : existing_trays[i].tray_id = tray_id}
            IN  IF hits # {}
                THEN LET tray == existing_trays[CHOOSE i \in hits : \A j \in hits : j <= i]
                     IN  FilamentRow(p_id, <<ams_id>>, <<tray_id>>, tray.tray_info_idx,
                                     IsActive(p_current_filament_info, tray.tray_info_idx))
                ELSE FilamentRow(p_id, <<ams_id>>, <<tray_id>>, None, <<FALSE>>)
    IN  [k \in 1..(4 * ams_count) |-> row(k)]

HasFilamentData(ams_count, p_current_filament_info, p_ams_filament_info) ==
    IF ams_count = 0 THEN p_current_filament_info # None
    ELSE Len(p_ams_filament_info) > 0

\* Mutant: a failure after the DELETE leaves the DELETE in place.
UpdateFilamentTable_NoRollback(table, p_id, ams_count, p_current_filament_info, p_ams_filament_info, ok) ==
    LET kept == SelectSeq(table, LAMBDA r : r.printer_id # p_id)
    IN  IF ~HasFilamentData(ams_count, p_current_filament_info, p_ams_filament_info)
        THEN table
        ELSE IF ~ok
        THEN kept
        ELSE IF ams_count = 0
        THEN Append(kept, FilamentRow(p_id, NULL, NULL, p_current_filament_info, <<TRUE>>))
        ELSE kept \o AmsRows(p_id, ams_count, p_current_filament_info, p_ams_filament_info)

\* update_filament_table: the new rows of printer_filaments. ams_count is
\* the value read from table printers; ok = FALSE: a statement after the
\* DELETE (an INSERT, the commit) raises and the except branch rolls back.
UpdateFilamentTable(table, p_id, ams_count, p_current_filament_info, p_ams_filament_info, ok) ==
    LET kept == SelectSeq(table, LAMBDA r : r.printer_id # p_id)
    IN  IF ~HasFilamentData(ams_count, p_current_filament_info, p_ams_filament_info)
        THEN table
        ELSE IF ~ok
        THEN table
        ELSE IF ams_count = 0
        THEN Append(kept, FilamentRow(p_id, NULL, NULL, p_current_filament_info, <<TRUE>>))
        ELSE kept \o AmsRows(p_id, ams_count, p_current_filament_info, p_ams_filament_info)

\* What earlier updates can have left in printer_filaments: nothing; the
\* external spools of printers 1 and 2; the four trays of the one AMS unit
\* of printer 1 and the external spool of printer 2.
PriorPrinterFilaments ==
    { <<>>,
      << FilamentRow(1, NULL, NULL, "GFB00", <<TRUE>>),
         FilamentRow(2, NULL, NULL, "GFA00", <<TRUE>>) >>,
      << FilamentRow(2, NULL, NULL, "GFA00", <<TRUE>>),
         FilamentRow(1, <<0>>, <<0>>, "GFB00", <<FALSE>>),
         FilamentRow(1, <<0>>, <<1>>, None, <<FALSE>>),
         FilamentRow(1, <<0>>, <<2>>, None, <<FALSE>>),
         FilamentRow(1, <<0>>, <<3>>, None, <<FALSE>>) >> }

\* What the hub can report in one poll: at most MaxReportedTrays trays.
Reports ==
    {reported \in [HubUnits \X TrayIds -> TrayIdx \cup {Absent}] :
        Cardinality({pos \in HubUnits \X TrayIds : reported[pos] # Absent})
            <= MaxReportedTrays}

\* One call of update_filament_table for printer 1: the table before, the
\* arguments, and the table after (NULL before the call).
InitFilament ==
    /\ MachineInit(<<1>>, <<>>, <<>>)
    /\ \E before \in PriorPrinterFilaments, ams_count \in 0..MaxAmsCount,
          current \in TrayIdx \cup {None}, reported \in Reports, ok \in BOOLEAN :
          probe = [before |-> before, ams_count |-> ams_count,
                   p_current_filament_info |-> current, reported |-> reported,
                   p_ams_filament_info |-> AmsFilamentInfo(reported),
                   ok |-> ok, printer_filaments |-> NULL]

UpdateFilament ==
    /\ probe.printer_filaments = NULL
    /\ probe' = [probe EXCEPT !.printer_filaments =
                     <<UpdateFilamentTable(probe.before, 1, probe.ams_count,
                                           probe.p_current_filament_info,
                                           probe.p_ams_filament_info, probe.ok)>>]
    /\ UNCHANGED <<printers_data, phase, init_idx, active_printers, printer_client,
                   unreachable_printers, last_retry_attempt_time, idx, connected,
                   clock, cycles, printer_job_history, health_failures, scen, last,
                   snapshot, printers_table, printer_job_filaments, attempt>>

NextFilament == UpdateFilament

SpecFilament == InitFilament /\ [][NextFilament]_vars

\* ------------------------------------------------ log_status_periodically
\* if current_time - last_log_time >= LOG_INTERVAL_SECONDS: the INSERT into
\* printer_status_logs is executed.
StatusLogDue(last_log_time, current_time) ==
    current_time - last_log_time >= LOG_INTERVAL_SECONDS

\* The time between two calls of log_status_periodically: a poll sleep, or
\* the rest of a log interval after a poll sleep.
LogSteps == {POLL_SLEEP_SECONDS, LOG_INTERVAL_SECONDS - POLL_SLEEP_SECONDS}

NoStatusCall == [id |-> 0, attempted |-> FALSE, committed |-> FALSE]

\* The calls of log_status_periodically for two printers: the in-memory
\* last_log_timestamp of each printer_info, the rows of printer_status_logs
\* (run: the run of the monitor that wrote the row), the time, the last
\* call, and per printer whether its last attempt to write failed.
InitStatusLog ==
    /\ MachineInit(<<1, 2>>, <<>>, <<>>)
    /\ probe = [last_log_timestamp |-> [p \in PrinterIds |-> 0],
                printer_status_logs |-> <<>>,
                now |-> EpochStart, run |-> 1, calls |-> 0,
                call |-> NoStatusCall,
                failed |-> [p \in PrinterIds |-> FALSE]]

\* log_status_periodically(printer_info, status) in a pass of printer p that
\* read a snapshot, dt seconds after the previous call; log_ok = FALSE: the
\* INSERT or the commit raises.
LogStatus ==
    /\ probe.calls < MaxStatusLogCalls
    /\ \E p \in PrinterIds, dt \in LogSteps, log_ok \in BOOLEAN :
          LET current_time == probe.now + dt
              last_log_time == probe.last_log_timestamp[p]
              due == StatusLogDue(last_log_time, current_time)
          IN  probe' = [probe EXCEPT
                  !.now = current_time,
                  !.calls = @ + 1,
                  !.last_log_timestamp[p] =
                      LogStatusPeriodically(last_log_time, current_time, log_ok),
                  !.printer_status_logs =
                      IF due /\ log_ok
                      THEN Append(@, [printer_id |-> p, logged_at |-> current_time,
                                      run |-> probe.run])
                      ELSE @,
                  !.call = [id |-> p, attempted |-> due, committed |-> due /\ log_ok],
                  !.failed[p] = due /\ ~log_ok]
    /\ UNCHANGED <<printers_data, phase, init_idx, active_printers, printer_client,
                   unreachable_printers, last_retry_attempt_time, idx, connected,
                   clock, cycles, printer_job_history, health_failures, scen, last,
                   snapshot, printers_table, printer_job_filaments, attempt>>

\* The monitor is stopped and started again: every printer_info is created
\* anew with last_log_timestamp 0, the table is kept.
RestartLogger ==
    /\ probe.call # NoStatusCall
    /\ probe' = [probe EXCEPT
            !.last_log_timestamp = [p \in PrinterIds |-> 0],
            !.run = @ + 1,
            !.call = NoStatusCall]
    /\ UNCHANGED <<printers_data, phase, init_idx, active_printers, printer_client,
                   unreachable_printers, last_retry_attempt_time, idx, connected,
                   clock, cycles, printer_job_history, health_failures, scen, last,
                   snapshot, printers_table, printer_job_filaments, attempt>>

NextStatusLog ==
    \/ LogStatus
    \/ RestartLogger

SpecStatusLog == InitStatusLog /\ [][NextStatusLog]_vars

\* ------------------------------------------------------ create_print_job
API_KEY == "SUPER_SECRET_KEY"

\* The X-API-Key header of a request: missing, right or wrong.
ApiKeys == {None, API_KEY, "guess"}

\* The end of request.file_path, and str.lower() of it.
Suffixes == {".3mf", ".3MF", ".gcode", ".txt"}

Lower(suffix) == IF suffix = ".3MF" THEN ".3mf" ELSE suffix

\* Names of archive members: directory, start of the base name, extension.
EntryNames ==
    { [dir |-> "Metadata/", base |-> "plate_", ext |-> ".gcode"],
      [dir |-> "Metadata/", base |-> "plate_", ext |-> ".png"],
      [dir |-> "Metadata/", base |-> "model_", ext |-> ".gcode"],
      [dir |-> "", base |-> "plate_", ext |-> ".gcode"] }

\* Mutant: every member that ends with .gcode counts.
IsPlateGcode_AnyGcode(n) ==
    n.ext = ".gcode"

\* n.endswith(".gcode") and n.startswith("Metadata/plate_")
IsPlateGcode(n) ==
    /\ n.ext = ".gcode"
    /\ n.dir = "Metadata/"
    /\ n.base = "plate_"

\* What request.file_path names: whether the path exists, its suffix,
\* whether opening it succeeds (FALSE: open raises an OSError, for instance
\* no permission), whether the content is a zip archive, and the member
\* names of the archive.
Files ==
    [exists : BOOLEAN, suffix : Suffixes, readable : BOOLEAN, zip : BOOLEAN,
     names : SUBSET EntryNames]

\* create_print_job for a request FastAPI has parsed: the status code of the
\* response and the file-system calls made, in order. An exception that no
\* except clause of the handler catches ends the request with 500.
CreatePrintJob(x_api_key, file) ==
    IF x_api_key = None \/ x_api_key # API_KEY
    THEN [status_code |-> 401, fs |-> <<>>]
    ELSE IF ~file.exists
    THEN [status_code |-> 400, fs |-> <<"exists">>]
    ELSE IF Lower(file.suffix) = ".3mf"
    THEN IF ~file.readable
         THEN [status_code |-> 500, fs |-> <<"exists", "ZipFile">>]
         ELSE IF ~file.zip
         THEN [status_code |-> 400, fs |-> <<"exists", "ZipFile">>]
         ELSE IF {n \in file.names : IsPlateGcode(n)} = {}
         THEN [status_code |-> 400, fs |-> <<"exists", "ZipFile">>]
         ELSE [status_code |-> 200, fs |-> <<"exists", "ZipFile", "open">>]
    ELSE IF Lower(file.suffix) = ".gcode"
    THEN IF ~file.readable
         THEN [status_code |-> 500, fs |-> <<"exists", "open">>]
         ELSE [status_code |-> 200, fs |-> <<"exists", "open">>]
    ELSE [status_code |-> 400, fs |-> <<"exists">>]

InitPrintJob ==
    /\ MachineInit(<<1>>, <<>>, <<>>)
    /\ probe \in [x_api_key : ApiKeys, file : Files, response : {NULL}]

PostPrintJob ==
    /\ probe.response = NULL
    /\ probe' = [probe EXCEPT !.response =
                     <<CreatePrintJob(probe.x_api_key, probe.file)>>]
    /\ UNCHANGED <<printers_data, phase, init_idx, active_printers, printer_client,
                   unreachable_printers, last_retry_attempt_time, idx, connected,
                   clock, cycles, printer_job_history, health_failures, scen, last,
                   snapshot, printers_table, printer_job_filaments, attempt>>

NextPrintJob == PostPrintJob

SpecPrintJob == InitPrintJob /\ [][NextPrintJob]_vars

\* ================================================================ claims
\* Rows of the job history that are open (end_time IS NULL) for a printer,
\* and for a printer and a file name.
OpenJobs(history, p) ==
    {i \in DOMAIN history : history[i].printer_id = p /\ history[i].end_time = NULL}

OpenJobsNamed(history, p, f) ==
    {i \in OpenJobs(history, p) : history[i].filename = f}

\* A pass of the poll loop that processed a status snapshot of the printer at
\* position idx (the step reads the old state unprimed, the new one primed).
SnapshotPass ==
    /\ phase = "loop"
    /\ idx \in DOMAIN active_printers
    /\ idx' = idx + 1
    /\ last'.event \in {"NONE", "START", "SKIP", "END", "WARN", "ERROR"}

PassId == active_printers[idx].id
PrevStatus == active_printers[idx].previous_status
PrevFilename == active_printers[idx].previous_filename
CurStatus == active_printers'[idx].previous_status
CurFilename == active_printers'[idx].previous_filename

StartDetected == SnapshotPass /\ PrevStatus # "RUNNING" /\ CurStatus = "RUNNING"

EndDetected ==
    SnapshotPass /\ PrevStatus = "RUNNING" /\ CurStatus # "RUNNING"
                 /\ PrevFilename # None

\* C1: for every printer, at most one row of the job history has a NULL
\* end time, in every reachable state.
C1_AtMostOneOpenJobPerPrinter ==
    \A p \in PrinterIds : Cardinality(OpenJobs(printer_job_history, p)) <= 1

\* C2: a start detection for a printer that already has an open row with the
\* same file name inserts nothing and leaves the job history unchanged, every
\* time it is repeated.
C2_DuplicateStartIsNoOp ==
    [][(StartDetected /\ OpenJobsNamed(printer_job_history, PassId, CurFilename) # {})
         => printer_job_history' = printer_job_history]_vars

C2_Witness ==
    /\ last.event = "SKIP"
    /\ ~last.fresh
    /\ printer_job_history # <<>>

\* The rows for (printer 1, a.job) that the run itself produced (rows of
\* earlier runs start before EpochStart).
ScenarioRows ==
    {i \in DOMAIN printer_job_history :
        /\ printer_job_history[i].printer_id = 1
        /\ printer_job_history[i].filename = "a.job"
        /\ printer_job_history[i].start_time[1] >= EpochStart}

C4_RestartDoesNotReinsert ==
    [][(SnapshotPass /\ PrevStatus = None /\ CurStatus = "RUNNING"
          /\ OpenJobsNamed(printer_job_history, PassId, CurFilename) # {})
         => /\ Len(printer_job_history') = Len(printer_job_history)
            /\ OpenJobsNamed(printer_job_history', PassId, CurFilename)
                 = OpenJobsNamed(printer_job_history, PassId, CurFilename)]_vars

C4_Witness ==
    /\ last.event = "SKIP"
    /\ last.fresh
    /\ \E i \in DOMAIN active_printers :
          /\ active_printers[i].id = last.id
          /\ active_printers[i].previous_status = "RUNNING"
          /\ Cardinality(OpenJobsNamed(printer_job_history, last.id,
                                       active_printers[i].previous_filename)) = 1

\* C5: a row is inserted only by a pass whose previous state is not RUNNING,
\* whose current state is RUNNING and whose printer reports a file name; a
\* RUNNING snapshot with an absent or empty file name inserts nothing.
C5_InsertOnlyWithFileName ==
    [][Len(printer_job_history') > Len(printer_job_history)
         => StartDetected /\ CurFilename \notin {None, "", NA}]_vars

C7_EndWithoutMatchWarns ==
    [][(EndDetected /\ last'.event # "ERROR"
          /\ OpenJobsNamed(printer_job_history, PassId, PrevFilename) = {})
         => /\ printer_job_history' = printer_job_history
            /\ last'.event = "WARN"
            /\ phase' = "loop"
            /\ \E i \in DOMAIN active_printers' : active_printers'[i].id = PassId]_vars

C7_Witness ==
    /\ last.event = "WARN"
    /\ phase = "loop"
    /\ OpenJobs(printer_job_history, last.id) # {}

\* C8: a printer whose health check failed on QuarantineThreshold
\* consecutive cycles is in the unreachable list, not in the active list,
\* and its connection is torn down.
C8_QuarantineAfterThreshold ==
    \A p \in PrinterIds :
        health_failures[p] >= QuarantineThreshold
          => /\ \E i \in DOMAIN unreachable_printers : unreachable_printers[i] = p
             /\ p \notin ActiveIds
             /\ ~connected[p]

\* C10: an exception raised while a printer is handled in a poll cycle never
\* ends the poll loop.
C10_ExceptionNeverEndsLoop ==
    last.event \in {"EXC_IS_CONNECTED", "EXC_RECONNECT", "EXC_READY",
                    "EXC_STATUS", "ERROR"}
      => phase = "loop"

\* C11: a pass whose status read never returns is given up after a deadline
\* and counts as a pass without data: the loop is not stuck in the call, so
\* the other printers are polled in this and in later cycles.
C11_HangingReadDoesNotStall ==
    last.event = "HANG" => phase = "loop"

\* C12: once Ctrl+C has stopped the loop (in the middle of a cycle) and the
\* cleanup has run, no printer of the active list still has a live
\* connection, also when stopping one of them raised.
C12_ShutdownDisconnectsAll ==
    (phase = "stopped" /\ last.event = "INTERRUPT" /\ idx # 0)
        => \A p \in ActiveIds : ~connected[p]

\* The telemetry row update_printer_table writes for the snapshot a pass has
\* just read (the pass's locals are primed).
SnapshotTelemetry ==
    [last_poll_status |-> snapshot'.status,
     last_polled_at |-> <<clock>>,
     remaining_time |-> IF snapshot'.remaining_time_min = NULL THEN NULL
                        ELSE <<60 * snapshot'.remaining_time_min[1]>>,
     current_print_job |-> IF snapshot'.gcode_file = NA THEN None
                           ELSE snapshot'.gcode_file,
     Print_Progress |-> snapshot'.percentage]

C19_OtherTransitionsLeaveHistory ==
    [][(/\ SnapshotPass
        /\ ~(PrevStatus # "RUNNING" /\ CurStatus = "RUNNING" /\ CurFilename \notin {None, "", NA})
        /\ ~(PrevStatus = "RUNNING" /\ CurStatus # "RUNNING" /\ PrevFilename \notin {None, "", NA}))
         => printer_job_history' = printer_job_history]_vars

\* C20: no printer is both in the active list and in the unreachable list,
\* and no printer is in the active list twice.
C20_ActiveAndUnreachableDisjoint ==
    /\ \A i \in DOMAIN unreachable_printers : unreachable_printers[i] \notin ActiveIds
    /\ \A i, j \in DOMAIN active_printers :
          active_printers[i].id = active_printers[j].id => i = j

C20_Witness ==
    /\ phase = "loop"
    /\ idx = 0
    /\ cycles = 1
    /\ Len(active_printers) = 2
    /\ last.id # 0

\* The progress a start estimate was computed for, and the row it produced.
ProbePercent == probe.percentage
ProbeRemainingSeconds == 60 * probe.remaining_time_min[1]
ProbeRow == probe.row[1]
ProbeInOpenRange ==
    ProbePercent # NULL /\ ProbePercent[1] > 0 /\ ProbePercent[1] < 100

\* C13: with 0 < percentage < 100 and a known remaining time the recorded
\* start time is the detection time minus percentage * remainingSeconds /
\* (100 - percentage), to the microsecond; with percentage 0, 100 or
\* unknown, or the remaining time unknown, it is the detection time.
C13_StartTimeEstimate ==
    probe.row # NULL =>
        IF ProbeInOpenRange /\ probe.remaining_time_min # NULL
        THEN LET d == 100 - ProbePercent[1]
                 n == ProbePercent[1] * ProbeRemainingSeconds
                 \* microseconds the start lies before (detection time - n \div d)
                 f == (clock - (n \div d) - ProbeRow.start_time[1]) * Micro
                        - ProbeRow.start_time[2]
             IN  /\ ProbeRow.start_time[2] \in 0..(Micro - 1)
                 /\ f \in 0..(Micro - 1)
                 /\ 2 * (f * d - (n % d) * Micro) <= d
                 /\ 2 * ((n % d) * Micro - f * d) <= d
        ELSE ProbeRow.start_time = <<clock, 0>>

C13_Witness ==
    /\ probe.row # NULL
    /\ probe.percentage = <<30>>
    /\ probe.remaining_time_min = <<1>>
    /\ ProbeRow.start_time = <<clock - 26, 285714>>

\* C14: with a known remaining time the recorded total duration is
\* remainingSeconds * 100 / (100 - percentage) in whole seconds when
\* 0 < percentage < 100, and remainingSeconds when the percentage is 0, 100
\* or unknown; every percentage in 0..100 yields a value (no division by
\* zero).
C14_TotalDurationEstimate ==
    (probe.row # NULL /\ probe.remaining_time_min # NULL) =>
        /\ ProbeRow.total_print_time # NULL
        /\ LET total == ProbeRow.total_print_time[1]
           IN  IF ProbeInOpenRange
               THEN /\ total * (100 - ProbePercent[1]) <= ProbeRemainingSeconds * 100
                    /\ ProbeRemainingSeconds * 100 < (total + 1) * (100 - ProbePercent[1])
               ELSE total = ProbeRemainingSeconds

C14_Witness ==
    /\ probe.row # NULL
    /\ probe.percentage = <<100>>
    /\ probe.remaining_time_min = <<MaxRemainingMin>>
    /\ ProbeRow.total_print_time = <<60 * MaxRemainingMin>>

\* C15: a code c in 0..15 decodes to holder c div 4 and position c mod 4
\* (0 -> (0,0), 5 -> (1,1), 15 -> (3,3)), codes 254 and 255 to the external
\* source, every other code to unknown, and an unknown code leaves the usage
\* ledger as it was.
C15_ActiveSlotDecoding ==
    probe.slot # NULL =>
        LET c == probe.code
            slot == probe.slot[1]
        IN  /\ c < 16 =>
                  /\ slot.kind = "holder"
                  /\ slot.holder[1] \in 0..3 /\ slot.position[1] \in 0..3
                  /\ 4 * slot.holder[1] + slot.position[1] = c
            /\ c = 0 => slot.holder = <<0>> /\ slot.position = <<0>>
            /\ c = 5 => slot.holder = <<1>> /\ slot.position = <<1>>
            /\ c = 15 => slot.holder = <<3>> /\ slot.position = <<3>>
            /\ c \in {254, 255} => slot.kind = "external"
            /\ (c >= 16 /\ c \notin {254, 255}) =>
                  /\ slot.kind = "unknown"
                  /\ probe.updated[1] = probe.ledger

C15_Witness ==
    /\ probe.slot # NULL
    /\ probe.code = 16
    /\ probe.slot[1].kind = "unknown"
    /\ probe.updated[1] = probe.ledger

\* The rows of printer_job_filaments that belong to a job.
FilamentRows(filaments, job_history_id) ==
    {i \in DOMAIN filaments : filaments[i].job_history_id = job_history_id}

\* The entries of a usage ledger that are marked as used, and the entries of
\* job 1 at the slot an active-slot code names.
UsedEntries(ledger) == {i \in DOMAIN ledger : ledger[i].wasUsed}

EntriesAt(ledger, code) ==
    {i \in DOMAIN ledger : /\ ledger[i].job_id = 1
                           /\ 4 * ledger[i].holder + ledger[i].position = code}

\* C16: a usage-ledger update with a code that names a holder slot leaves
\* exactly that one entry of the job marked (besides the entries marked
\* before), a second update with the same code changes nothing, no update
\* adds or removes an entry and no entry's wasUsed goes from TRUE to FALSE;
\* in table printer_job_filaments a call of log_job_filament keeps every row
\* as it is, changes nothing when the job has its row and never leaves a job
\* with two rows.
C16_UsageIdempotentAndMonotone ==
    [][/\ DOMAIN probe'.ledger = DOMAIN probe.ledger
       /\ \A i \in DOMAIN probe.ledger :
             /\ probe.ledger[i].wasUsed => probe'.ledger[i].wasUsed
             /\ [probe'.ledger[i] EXCEPT !.wasUsed = FALSE]
                    = [probe.ledger[i] EXCEPT !.wasUsed = FALSE]
       /\ (probe'.op = "usage_update" /\ probe'.code < 16) =>
             /\ Cardinality(EntriesAt(probe.ledger, probe'.code)) = 1
             /\ UsedEntries(probe'.ledger)
                    = UsedEntries(probe.ledger) \cup EntriesAt(probe.ledger, probe'.code)
       /\ (probe'.op = "usage_update" /\ probe'.repeat) => probe'.ledger = probe.ledger
       /\ \A i \in DOMAIN printer_job_filaments :
             /\ i \in DOMAIN printer_job_filaments'
             /\ printer_job_filaments'[i] = printer_job_filaments[i]
       /\ (/\ probe'.op = "log_job_filament"
           /\ FilamentRows(printer_job_filaments, probe'.job_history_id) # {})
             => printer_job_filaments' = printer_job_filaments
       /\ \A j \in 0..MaxJobs :
             Cardinality(FilamentRows(printer_job_filaments', j)) <= 1]_vars

C16_Witness ==
    /\ probe.op = "usage_update"
    /\ probe.calls = 2
    /\ probe.repeat
    /\ probe.code = 5
    /\ UsedEntries(probe.ledger) = {6}
    /\ probe.ledger[6].holder = 1 /\ probe.ledger[6].position = 1

\* C21: mqtt_start() is called in an attempt only when ping_host succeeded
\* in that attempt, and an attempt whose ping failed calls no mqtt_start()
\* and leaves the printer disconnected; at start-up, in the retry block and
\* in the reconnect of the poll loop.
C21_ConnectOnlyAfterProbe ==
    /\ attempt.handshake => attempt.ping = "ok"
    /\ attempt.ping = "fail" => ~attempt.handshake /\ ~connected[attempt.id]

\* C22: a printer whose readiness wait ran out is disconnected afterwards:
\* it is not a connected printer of the active list.
C22_TimeoutTearsDown ==
    attempt.ready = "timeout"
        => ~(connected[attempt.id] /\ attempt.id \in ActiveIds)

LoadedSlots ==
    IF probe.ams_trays > 0 THEN probe.ams_trays
    ELSE IF probe.current_filament_info # None THEN 1 ELSE 0

\* C24: after a job start the new job has one filament row for every loaded
\* slot the printer reported.
C24_OneEntryPerLoadedSlot ==
    probe.job # NULL =>
        Cardinality(FilamentRows(printer_job_filaments, probe.job[1])) = LoadedSlots

\* C25: a printer in the active list that has not processed a snapshot since
\* it was connected, and for which the job history holds an open row,
\* remembers that row: its current_job_id is the row's id and its
\* previous_filename the row's file name.
C25_ConnectAdoptsOpenJob ==
    \A i \in DOMAIN active_printers :
        LET info == active_printers[i]
            open == OpenJobs(printer_job_history, info.id)
        IN  (info.previous_status = None /\ open # {})
                => \E j \in open :
                      /\ info.current_job_id = <<j>>
                      /\ info.previous_filename = printer_job_history[j].filename

\* The whole seconds between the recorded start time and the detection.
ProbeElapsedWhole ==
    IF ProbeRow.start_time[2] = 0
    THEN clock - ProbeRow.start_time[1]
    ELSE clock - ProbeRow.start_time[1] - 1

\* C26: with 0 < percentage < 100 and a known remaining time, the recorded
\* total duration is the elapsed time (detection time minus recorded start
\* time) plus the remaining time, cut to whole seconds; 30 minutes remaining
\* at 50 % give 30 minutes elapsed and 60 minutes in total.
C26_EstimatesConsistent ==
    (probe.row # NULL /\ ProbeInOpenRange /\ probe.remaining_time_min # NULL) =>
        /\ ProbeRow.total_print_time = <<ProbeElapsedWhole + ProbeRemainingSeconds>>
        /\ (probe.percentage = <<50>> /\ probe.remaining_time_min = <<30>>) =>
              /\ ProbeRow.start_time = <<clock - 30 * 60, 0>>
              /\ ProbeRow.total_print_time = <<60 * 60>>

C26_Witness ==
    /\ probe.row # NULL
    /\ probe.percentage = <<50>>
    /\ probe.remaining_time_min = <<30>>
    /\ ProbeRow.start_time = <<clock - 1800, 0>>
    /\ ProbeRow.total_print_time = <<3600>>

\* C27: a pass that processes the snapshot of one printer changes only that
\* printer's entry of active_printers and only rows keyed by that printer's
\* id: the entries of the other printers, their rows of the job history, of
\* printer_job_filaments and of table printers stay as they are, and every
\* new row carries the polled printer's id.
C27_PollTouchesOnlyItsPrinter ==
    [][SnapshotPass =>
         /\ DOMAIN active_printers' = DOMAIN active_printers
         /\ \A i \in DOMAIN active_printers :
               i # idx => active_printers'[i] = active_printers[i]
         /\ active_printers'[idx].id = PassId
         /\ \A j \in DOMAIN printer_job_history :
               /\ j \in DOMAIN printer_job_history'
               /\ printer_job_history[j].printer_id # PassId
                     => printer_job_history'[j] = printer_job_history[j]
         /\ \A j \in DOMAIN printer_job_history' \ DOMAIN printer_job_history :
               printer_job_history'[j].printer_id = PassId
         /\ \A j \in DOMAIN printer_job_filaments :
               /\ j \in DOMAIN printer_job_filaments'
               /\ printer_job_filaments'[j] = printer_job_filaments[j]
         /\ \A j \in DOMAIN printer_job_filaments' \ DOMAIN printer_job_filaments :
               printer_job_filaments'[j].printer_id = PassId
         /\ \A p \in PrinterIds \ {PassId} : printers_table'[p] = printers_table[p]]_vars

C27_Witness ==
    /\ last.id = 2
    /\ last.event = "END"
    /\ Len(active_printers) = 2
    /\ active_printers[1].id = 1
    /\ active_printers[1].previous_status = "RUNNING"
    /\ OpenJobsNamed(printer_job_history, 1, "a.job") # {}
    /\ OpenJobs(printer_job_history, 2) = {}

\* A pass that ends with continue or in the except branch of the status
\* try block.
SkippedPass ==
    /\ phase = "loop"
    /\ idx \in DOMAIN active_printers
    /\ idx' = idx + 1
    /\ last'.event \in {"CONTINUE", "EXC_RECONNECT", "EXC_STATUS"}

\* C28: a pass that is skipped or whose status reads raise leaves
\* active_printers (previous_status, previous_filename) and the job history
\* as they are; and the first snapshot after such passes that is not
\* RUNNING while the remembered state is RUNNING takes the end branch: it
\* closes the open row named like the remembered file, or warns that there
\* is none.
C28_SkippedPassKeepsMemory ==
    [][/\ SkippedPass =>
             /\ active_printers' = active_printers
             /\ printer_job_history' = printer_job_history
       /\ (/\ SnapshotPass
           /\ health_failures[PassId] > 0
           /\ PrevStatus = "RUNNING"
           /\ CurStatus # "RUNNING") =>
             /\ last'.event \in {"END", "WARN", "ERROR"}
             /\ last'.event = "END" =>
                   /\ OpenJobsNamed(printer_job_history, PassId, PrevFilename) # {}
                   /\ OpenJobsNamed(printer_job_history', PassId, PrevFilename) = {}
             /\ last'.event = "WARN" =>
                   OpenJobsNamed(printer_job_history, PassId, PrevFilename) = {}]_vars

C28_Witness ==
    /\ last.event \in {"CONTINUE", "EXC_RECONNECT", "EXC_STATUS"}
    /\ health_failures[1] > 0
    /\ cycles = 1
    /\ active_printers[1].previous_status = "RUNNING"
    /\ active_printers[1].previous_filename = "a.job"
    /\ OpenJobsNamed(printer_job_history, 1, "a.job") # {}

\* C29: every pass that processes a snapshot sets the remembered state to
\* the snapshot, also when log_job_event printed an error and rolled back
\* (the job history is then unchanged); so the next RUNNING snapshot after a
\* failed start and the next snapshot that is not RUNNING after a failed end
\* are no transitions and leave the job history unchanged.
C29_FailedWriteIsNotRetried ==
    [][SnapshotPass =>
         /\ active_printers'[idx].previous_status = snapshot'.status
         /\ active_printers'[idx].previous_filename = snapshot'.gcode_file
         /\ last'.event = "ERROR" => printer_job_history' = printer_job_history
         /\ (PrevStatus = "RUNNING" /\ snapshot'.status = "RUNNING")
               => printer_job_history' = printer_job_history
         /\ (PrevStatus # "RUNNING" /\ snapshot'.status # "RUNNING")
               => printer_job_history' = printer_job_history]_vars

C29_Witness ==
    /\ last.event = "NONE"
    /\ ~last.fresh
    /\ cycles = 2
    /\ snapshot.status = "IDLE"
    /\ active_printers[1].previous_status = "IDLE"
    /\ \E j \in OpenJobsNamed(printer_job_history, 1, "a.job") :
          printer_job_history[j].start_time = <<EpochStart, 0>>

\* C30: when the file name changes while the remembered and the reported
\* state are RUNNING, the job history stays as it is; and when the job the
\* printer remembers (current_job_id) is open under another name than the
\* remembered file name, the end transition finds no open row, warns and
\* leaves the job history as it is.
C30_RenameWhileRunning ==
    [][SnapshotPass =>
         /\ (/\ PrevStatus = "RUNNING"
             /\ CurStatus = "RUNNING"
             /\ PrevFilename # CurFilename)
               => printer_job_history' = printer_job_history
         /\ (/\ PrevStatus = "RUNNING"
             /\ CurStatus # "RUNNING"
             /\ last'.event # "ERROR"
             /\ \E j \in OpenJobs(printer_job_history, PassId) :
                   /\ active_printers[idx].current_job_id = <<j>>
                   /\ printer_job_history[j].filename # PrevFilename)
               => /\ last'.event = "WARN"
                  /\ printer_job_history' = printer_job_history]_vars

\* C31: for every printer and every file name, at most one row of the job
\* history with that printer id and file name has a NULL end time, in every
\* reachable state of one poll loop that starts from rows such a loop left.
C31_AtMostOneOpenJobPerFile ==
    \A p \in PrinterIds :
        \A i, j \in OpenJobs(printer_job_history, p) :
            printer_job_history[i].filename = printer_job_history[j].filename => i = j

C31_Witness ==
    /\ last.event = "SKIP"
    /\ Cardinality(OpenJobsNamed(printer_job_history, 1, snapshot.gcode_file)) = 1
    /\ Cardinality(OpenJobs(printer_job_history, 1)) = 2

\* The remembered current_job_id of the printer a pass is for, before and
\* after the pass.
PrevJobId == active_printers[idx].current_job_id
CurJobId == active_printers'[idx].current_job_id

\* C32: a recorded start sets the remembered current_job_id to the id of the
\* new row; a recorded end with FINISH resets it to None; a recorded end with
\* another status leaves it naming the row the pass closed; no other pass
\* changes it.
C32_RememberedJobId ==
    [][SnapshotPass =>
         /\ last'.event = "START" =>
               /\ Len(printer_job_history') = Len(printer_job_history) + 1
               /\ CurJobId = <<Len(printer_job_history')>>
         /\ (last'.event = "END" /\ snapshot'.status = "FINISH") => CurJobId = NULL
         /\ (last'.event = "END" /\ snapshot'.status # "FINISH") =>
               /\ CurJobId = PrevJobId
               /\ CurJobId # NULL
               /\ CurJobId[1] \in OpenJobs(printer_job_history, PassId)
               /\ printer_job_history'[CurJobId[1]].end_time # NULL
         /\ last'.event \notin {"START", "END"} => CurJobId = PrevJobId]_vars

\* The ids of the active printers, in list order.
ActiveIdSeq(printers) == [i \in DOMAIN printers |-> printers[i].id]

\* C33: unreachable_printers is empty in every reachable state; the retry
\* block at the top of a cycle connects nothing and leaves active_printers
\* as it is; in the monitoring loop only active printers are connected to
\* or polled, so a row that was not connected at start-up never is; and no
\* step of the monitoring loop removes a printer from active_printers.
C33_UnreachableListStaysEmpty ==
    /\ [](unreachable_printers = <<>>)
    /\ [][phase = "loop" =>
            /\ (idx = 0 /\ idx' = 1) =>
                  /\ attempt' = NoAttempt
                  /\ active_printers' = active_printers
                  /\ connected' = connected
            /\ attempt'.id \in ActiveIds \cup {0}
            /\ last'.id \in ActiveIds \cup {0}
            /\ \A p \in PrinterIds \ ActiveIds : connected'[p] = connected[p]
            /\ ActiveIdSeq(active_printers') = ActiveIdSeq(active_printers)]_vars

C33_Witness ==
    /\ phase = "loop"
    /\ cycles = 1
    /\ idx = 2
    /\ ActiveIds = {1}
    /\ Len(printers_data) = 2
    /\ ~connected[2]
    /\ unreachable_printers = <<>>
    /\ last.id = 1

\* The table after the call of update_filament_table, the rows of a printer
\* in a table, and whether the call had filament data and committed.
ProbeTable == probe.printer_filaments[1]
RowsOf(table, p) == SelectSeq(table, LAMBDA r : r.printer_id = p)
RowsAt(table, p, ams_id, tray_id) ==
    SelectSeq(RowsOf(table, p), LAMBDA r : r.ams_id = ams_id /\ r.tray_id = tray_id)
ReportedAt(ams_id, tray_id) ==
    IF ams_id \in HubUnits THEN probe.reported[<<ams_id, tray_id>>] ELSE Absent
FilamentUpdated ==
    /\ probe.printer_filaments # NULL
    /\ probe.ok
    /\ HasFilamentData(probe.ams_count, probe.p_current_filament_info,
                       probe.p_ams_filament_info)

\* C34: after a committed update of a printer with ams_count n > 0 and
\* reported trays, the printer has exactly 4n rows, exactly one for each
\* unit in 0..n-1 and position in 0..3: the tray that was reported there, or
\* a placeholder without data; after a committed update of a printer with
\* ams_count 0 and a current filament it has exactly one row, with ams_id
\* and tray_id NULL.
C34_FixedGridOfFilamentRows ==
    FilamentUpdated =>
        /\ probe.ams_count > 0 =>
              /\ Len(RowsOf(ProbeTable, 1)) = 4 * probe.ams_count
              /\ \A a \in 0..(probe.ams_count - 1), t \in TrayIds :
                    /\ Len(RowsAt(ProbeTable, 1, <<a>>, <<t>>)) = 1
                    /\ LET r == RowsAt(ProbeTable, 1, <<a>>, <<t>>)[1]
                       IN  IF ReportedAt(a, t) = Absent
                           THEN r.filament_id = None /\ r.is_active = <<FALSE>>
                           ELSE r.filament_id = ReportedAt(a, t)
        /\ probe.ams_count = 0 =>
              /\ Len(RowsOf(ProbeTable, 1)) = 1
              /\ RowsOf(ProbeTable, 1)[1].ams_id = NULL
              /\ RowsOf(ProbeTable, 1)[1].tray_id = NULL
              /\ RowsOf(ProbeTable, 1)[1].filament_id = probe.p_current_filament_info

C34_Witness ==
    /\ FilamentUpdated
    /\ probe.ams_count = 2
    /\ Len(RowsOf(probe.before, 1)) = 1
    /\ Len(RowsOf(ProbeTable, 1)) = 8
    /\ ReportedAt(0, 1) # Absent
    /\ ReportedAt(1, 3) # Absent
    /\ ReportedAt(0, 0) = Absent

\* C35: a call without filament data for the printer leaves printer_filaments
\* as it was; a call in which a statement after the DELETE fails leaves it
\* as it was; a committed call replaces all rows of the printer; no call
\* changes the rows of another printer.
C35_FilamentUpdateAllOrNothing ==
    probe.printer_filaments # NULL =>
        /\ RowsOf(ProbeTable, 2) = RowsOf(probe.before, 2)
        /\ IF FilamentUpdated
           THEN Len(RowsOf(ProbeTable, 1)) =
                    IF probe.ams_count = 0 THEN 1 ELSE 4 * probe.ams_count
           ELSE ProbeTable = probe.before

C35_Witness ==
    /\ probe.printer_filaments # NULL
    /\ ~probe.ok
    /\ HasFilamentData(probe.ams_count, probe.p_current_filament_info,
                       probe.p_ams_filament_info)
    /\ probe.ams_count = 2
    /\ Len(RowsOf(ProbeTable, 1)) = 4
    /\ Len(RowsOf(ProbeTable, 2)) = 1

\* C36: after a committed update of a printer with AMS units, a row is
\* active (is_active is TRUE) exactly when a tray was reported at its
\* position, a current filament is known and the tray_info_idx of the tray
\* equals that of the current filament; so a placeholder row is never
\* active and all trays with the id of the current filament are.
C36_ActiveFlagOfTrayRows ==
    (FilamentUpdated /\ probe.ams_count > 0) =>
        \A k \in DOMAIN RowsOf(ProbeTable, 1) :
            LET r == RowsOf(ProbeTable, 1)[k]
            IN  /\ r.ams_id # NULL /\ r.tray_id # NULL
                /\ r.is_active = <<TRUE>> <=>
                      /\ ReportedAt(r.ams_id[1], r.tray_id[1]) # Absent
                      /\ probe.p_current_filament_info # None
                      /\ ReportedAt(r.ams_id[1], r.tray_id[1]) =
                             probe.p_current_filament_info

C36_Witness ==
    /\ FilamentUpdated
    /\ probe.ams_count = 2
    /\ Cardinality({k \in DOMAIN ProbeTable :
                       ProbeTable[k].printer_id = 1 /\ ProbeTable[k].is_active = <<TRUE>>}) = 2
    /\ \E k \in DOMAIN ProbeTable :
          /\ ProbeTable[k].printer_id = 1
          /\ ProbeTable[k].filament_id \notin {None, probe.p_current_filament_info}
          /\ ProbeTable[k].is_active = <<FALSE>>

\* A call of log_status_periodically, the printer it is for, and whether it
\* added a row to printer_status_logs.
StatusCall == probe'.calls = probe.calls + 1
CallId == probe'.call.id
RowWritten ==
    Len(probe'.printer_status_logs) = Len(probe.printer_status_logs) + 1
StatusRows(p) ==
    {i \in DOMAIN probe.printer_status_logs :
        probe.printer_status_logs[i].printer_id = p}

Response == probe.response[1]
KeyAccepted == probe.x_api_key = API_KEY
IsGcodePath == probe.file.suffix = ".gcode"
Is3mfPath == probe.file.suffix \in {".3mf", ".3MF"}
PrintableFile ==
    \/ IsGcodePath
    \/ /\ Is3mfPath
       /\ probe.file.zip
       /\ \E n \in probe.file.names :
             n.dir = "Metadata/" /\ n.base = "plate_" /\ n.ext = ".gcode"

\* C38: a request without the right key gets 401 and no file-system call is
\* made; else a path that does not exist gets 400; else a file that is
\* neither a .gcode file nor a .3mf archive with a member
\* Metadata/plate_*.gcode gets 400, or 500 when it is a .3mf file that
\* cannot be opened; only a request that passed the three checks gets 200.
C38_ChecksInOrderOrServerError ==
    probe.response # NULL =>
        /\ ~KeyAccepted => Response.status_code = 401 /\ Response.fs = <<>>
        /\ (KeyAccepted /\ ~probe.file.exists) => Response.status_code = 400
        /\ (KeyAccepted /\ probe.file.exists /\ ~PrintableFile) =>
              Response.status_code =
                  IF Is3mfPath /\ ~probe.file.readable THEN 500 ELSE 400
        /\ Response.status_code = 200 =>
              KeyAccepted /\ probe.file.exists /\ PrintableFile

\* C38 as stated: every file that passes the first two checks and is
\* neither a .gcode file nor a .3mf archive with such a member gets 400.
C38_ChecksInFixedOrder ==
    probe.response # NULL =>
        /\ ~KeyAccepted => Response.status_code = 401 /\ Response.fs = <<>>
        /\ (KeyAccepted /\ ~probe.file.exists) => Response.status_code = 400
        /\ (KeyAccepted /\ probe.file.exists /\ ~PrintableFile) =>
              Response.status_code = 400
        /\ Response.status_code = 200 =>
              KeyAccepted /\ probe.file.exists /\ PrintableFile

C38_Witness ==
    /\ probe.response # NULL
    /\ KeyAccepted
    /\ probe.file.exists
    /\ probe.file.suffix = ".3MF"
    /\ probe.file.readable
    /\ probe.file.zip
    /\ Cardinality(probe.file.names) = 3
    /\ ~PrintableFile
    /\ Response.status_code = 400

====
